---- MODULE Spec2Model ----
(***************************************************************************)
(* Model of parse-vue-component.py: the quote-aware brace scanner          *)
(* (find_matching_brace), the four anchor-based extractors and the driver  *)
(* that writes one file per extracted section.                             *)
(*                                                                         *)
(* Buffers are sequences of one-character strings.  Indices are kept      *)
(* 0-based as in the source; At(text, k) reads text[k].                    *)
(***************************************************************************)
EXTENDS Integers, Sequences, FiniteSets, TLC

VARIABLES
    content,    \* the buffer read from the input file
    kind,       \* which routine runs on it
    start,      \* the local start / start_pos of the running routine
    scan,       \* the locals of the running loop
    pc,         \* the position of the program
    result,     \* what find_matching_brace returned (the local end)
    span,       \* what the extractor returned
    template,   \* the driver's five results
    data,
    computed,
    methods,
    mounted,
    files,      \* the output files written, by path
    out         \* the lines printed

driver == <<template, data, computed, methods, mounted, files, out>>

vars == <<content, kind, start, scan, pc, result, span, driver>>

-----------------------------------------------------------------------------
(* Bounds of the model.                                                    *)

MaxBody == 5

MaxTail == 5

MaxTplHead == 4

-----------------------------------------------------------------------------
(* Characters and slices.                                                  *)

BS == "\\"

\* the backtick character (TLA+ strings cannot hold it, so it is written out)
BT == "backtick"

NoChar == "None"

At(text, k) == text[k + 1]

\* text[a:b] for 0 <= a: Python clamps b to len(text) and yields '' when a >= b.
Slice(text, a, b) ==
    LET hi == IF b < Len(text) THEN b ELSE Len(text)
    IN  IF a >= hi THEN <<>> ELSE SubSeq(text, a + 1, hi)

\* an extractor returns None or a string
None == [present |-> FALSE, val |-> <<>>]

Some(v) == [present |-> TRUE, val |-> v]

\* an output file that has not been written
NoFile == [written |-> FALSE, text |-> <<>>]

ScanAlphabet == {"{", "}", "\"", "'", BT, BS, "a"}

-----------------------------------------------------------------------------
(* find_matching_brace                                                     *)

IsQuoteChar(char) == char \in {"\"", "'", BT}

\* line 17: the quote is handled only when the previous character is not a backslash
QuoteHandled(text, i) ==
    IsQuoteChar(At(text, i)) /\ (i = 0 \/ At(text, i - 1) # BS)

\* as QuoteAfter, but any quote character closes the open string
QuoteAfter_AnyQuoteCloses(text, st) ==
    LET char == At(text, st.i)
    IN  IF QuoteHandled(text, st.i)
        THEN IF ~st.in_string
             THEN [in_string |-> TRUE, string_char |-> char]
             ELSE [in_string |-> FALSE, string_char |-> NoChar]
        ELSE [in_string |-> st.in_string, string_char |-> st.string_char]

\* lines 17-23: the quote state after reading text[i]
QuoteAfter(text, st) ==
    LET char == At(text, st.i)
    IN  IF QuoteHandled(text, st.i)
        THEN IF ~st.in_string
             THEN [in_string |-> TRUE, string_char |-> char]
             ELSE IF char = st.string_char
                  THEN [in_string |-> FALSE, string_char |-> NoChar]
                  ELSE [in_string |-> st.in_string, string_char |-> st.string_char]
        ELSE [in_string |-> st.in_string, string_char |-> st.string_char]

\* as DepthAfter, but braces inside strings are counted too
DepthAfter_CountsInStrings(char, in_string, depth) ==
    IF char = "{" THEN depth + 1
    ELSE IF char = "}" THEN depth - 1
    ELSE depth

\* lines 25-29: the depth after reading char with the quote state already updated
DepthAfter(char, in_string, depth) ==
    IF ~in_string
    THEN IF char = "{" THEN depth + 1
         ELSE IF char = "}" THEN depth - 1
         ELSE depth
    ELSE depth

\* lines 28-31: the closing brace that brings the depth to zero is returned
ReturnsAt(char, in_string, depth) ==
    ~in_string /\ char = "}" /\ depth = 0

ScanInit(start_pos) ==
    [i |-> start_pos, depth |-> 0, in_string |-> FALSE, string_char |-> NoChar]

\* one iteration of the while loop (lines 14-33), the position not yet advanced
ScanBody(text, st) ==
    LET char == At(text, st.i)
        q    == QuoteAfter(text, st)
        d    == DepthAfter(char, q.in_string, st.depth)
    IN  [i |-> st.i, depth |-> d, in_string |-> q.in_string,
         string_char |-> q.string_char]

ScanReturns(text, st) ==
    LET b == ScanBody(text, st)
    IN  ReturnsAt(At(text, st.i), b.in_string, b.depth)

ScanAdvance(text, st) ==
    [ScanBody(text, st) EXCEPT !.i = st.i + 1]

RECURSIVE ScanFrom(_, _)
ScanFrom(text, st) ==
    IF st.i >= Len(text) THEN -1
    ELSE IF ScanReturns(text, st) THEN st.i
    ELSE ScanFrom(text, ScanAdvance(text, st))

find_matching_brace(text, start_pos) == ScanFrom(text, ScanInit(start_pos))

-----------------------------------------------------------------------------
(* The anchor patterns and re.search.  A pattern is a sequence of literal  *)
(* pieces with \s* between two consecutive pieces.                         *)

\* the characters \s matches, among those a buffer of the model can hold
IsSpace(c) == c \in {" ", "\t", "\n", "\r", "\f"}

Name_computed == <<"c", "o", "m", "p", "u", "t", "e", "d">>

Name_methods == <<"m", "e", "t", "h", "o", "d", "s">>

Name_mounted == <<"m", "o", "u", "n", "t", "e", "d">>

\* line 40: template:\s*\\`
TemplatePattern ==
    << <<"t", "e", "m", "p", "l", "a", "t", "e", ":">>, <<BS, BT>> >>

\* line 66: {section_name}:\s*{
SectionPattern(section_name) == << section_name \o <<":">>, <<"{">> >>

\* line 80: data\(\)\s*{\s*return\s*{
DataPattern ==
    << <<"d", "a", "t", "a", "(", ")">>, <<"{">>,
       <<"r", "e", "t", "u", "r", "n">>, <<"{">> >>

\* line 93: {hook_name}\(\)\s*{
LifecyclePattern(hook_name) == << hook_name \o <<"(", ")">>, <<"{">> >>

RECURSIVE SkipSpace(_, _)
SkipSpace(text, p) ==
    IF p < Len(text) /\ IsSpace(At(text, p)) THEN SkipSpace(text, p + 1) ELSE p

\* the end of the match of pattern that begins at p, -1 when there is none;
\* no piece begins with a space, so the greedy \s* has one way to match
RECURSIVE MatchAt(_, _, _)
MatchAt(text, p, pattern) ==
    LET piece == Head(pattern)
        q == p + Len(piece)
    IN  IF Slice(text, p, q) # piece THEN -1
        ELSE IF Len(pattern) = 1 THEN q
        ELSE MatchAt(text, SkipSpace(text, q), Tail(pattern))

\* re.search: the leftmost match; end is match.end()
re_search(pattern, text) ==
    LET hits == {p \in 0..Len(text) : MatchAt(text, p, pattern) # -1}
    IN  IF hits = {} THEN [found |-> FALSE, end |-> -1]
        ELSE [found |-> TRUE,
              end |-> MatchAt(text, CHOOSE p \in hits : \A r \in hits : p <= r,
                              pattern)]

-----------------------------------------------------------------------------
(* extract_template                                                        *)

\* line 54: after = content[i+1:i+10]
LookaheadEnd == 10

\* str.replace for a two-character old and a one-character new: the
\* occurrences are taken left to right and do not overlap
RECURSIVE Replace(_, _, _)
Replace(text, old, new) ==
    IF Len(text) < 2 THEN text
    ELSE IF SubSeq(text, 1, 2) = old
         THEN new \o Replace(SubSeq(text, 3, Len(text)), old, new)
         ELSE <<text[1]>> \o Replace(SubSeq(text, 2, Len(text)), old, new)

\* as Unescape, but the escaped dollar sign is left as it is
Unescape_NoDollar(text) ==
    Replace(Replace(text, <<BS, BT>>, <<BT>>), <<BS, "'">>, <<"'">>)

\* line 58: three replacements, one after the other
Unescape(text) ==
    Replace(Replace(Replace(text, <<BS, BT>>, <<BT>>), <<BS, "'">>, <<"'">>),
            <<BS, "$">>, <<"$">>)

\* line 49: content[i:i+2] == '\\`'
AtEscapedBacktick(text, i) == Slice(text, i, i + 2) = <<BS, BT>>

\* as ClosesTemplate, but the window is one character shorter
ClosesTemplate_ShortWindow(text, i) ==
    /\ At(text, i) = BT
    /\ At(text, i - 1) # BS
    /\ LET after == Slice(text, i + 1, i + LookaheadEnd - 1)
       IN  \E k \in 1..Len(after) : after[k] \in {",", "}"}

\* lines 52-55: an unescaped backtick with a comma or closing brace in the window
ClosesTemplate(text, i) ==
    /\ At(text, i) = BT
    /\ At(text, i - 1) # BS
    /\ LET after == Slice(text, i + 1, i + LookaheadEnd)
       IN  \E k \in 1..Len(after) : after[k] \in {",", "}"}

\* lines 48-62: the index of the closing backtick, -1 when the buffer ends first
RECURSIVE TemplateEnd(_, _)
TemplateEnd(text, i) ==
    IF i >= Len(text) THEN -1
    ELSE IF AtEscapedBacktick(text, i) THEN TemplateEnd(text, i + 2)
    ELSE IF ClosesTemplate(text, i) THEN i
    ELSE TemplateEnd(text, i + 1)

\* lines 40-62
extract_template(text) ==
    LET match == re_search(TemplatePattern, text)
    IN  IF ~match.found THEN None
        ELSE LET end == TemplateEnd(text, match.end)
             IN  IF end = -1 THEN None
                 ELSE Some(Unescape(Slice(text, match.end, end)))

-----------------------------------------------------------------------------
(* extract_section, extract_data, extract_lifecycle                        *)

\* as SpanBetween, but without the test for end == -1 (content[start+1:-1])
SpanBetween_NoCheck(text, start_, end) ==
    IF end = -1 THEN Some(Slice(text, start_ + 1, Len(text) - 1))
    ELSE Some(Slice(text, start_ + 1, end))

\* as SpanBetween, but the slice keeps the opening brace (content[start:end])
SpanBetween_KeepsBrace(text, start_, end) ==
    IF end = -1 THEN None ELSE Some(Slice(text, start_, end))

\* lines 73-76, 86-89, 100-103: None when the scanner found nothing, else the
\* text strictly between the two braces
SpanBetween(text, start_, end) ==
    IF end = -1 THEN None ELSE Some(Slice(text, start_ + 1, end))

\* lines 67-76, 80-89, 94-103 share one shape
ExtractBraced(text, pattern) ==
    LET match == re_search(pattern, text)
    IN  IF ~match.found THEN None
        ELSE SpanBetween(text, match.end - 1,
                         find_matching_brace(text, match.end - 1))

extract_section(text, section_name) ==
    ExtractBraced(text, SectionPattern(section_name))

extract_data(text) == ExtractBraced(text, DataPattern)

extract_lifecycle(text, hook_name) ==
    ExtractBraced(text, LifecyclePattern(hook_name))

\* the pattern each brace-based extraction of the driver searches for
PatternOf(k) ==
    CASE k = "data" -> DataPattern
      [] k = "computed" -> SectionPattern(Name_computed)
      [] k = "methods" -> SectionPattern(Name_methods)
      [] k = "mounted" -> LifecyclePattern(Name_mounted)
      [] k = "template" -> TemplatePattern

BracedKinds == {"data", "computed", "methods", "mounted"}

-----------------------------------------------------------------------------
(* The scanner run step by step on a buffer.                               *)

\* the buffers of the documented examples: {"a}b"} and {"a\"b"}
ScanExamples ==
    { <<"{", "\"", "a", "}", "b", "\"", "}">>,
      <<"{", "\"", "a", BS, "\"", "b", "\"", "}">> }

\* a buffer holds an opening brace at start_pos and then a body
ScanInput(buffer) ==
    \E k \in 0..MaxBody : \E body \in [1..k -> ScanAlphabet] :
        buffer = <<"{">> \o body

InitScan ==
    /\ ScanInput(content) \/ content \in ScanExamples
    /\ start = 0
    /\ scan = ScanInit(start)
    /\ pc = "scan"
    /\ result = -1
    /\ kind = "scanner"
    /\ span = None
    /\ template = None
    /\ data = None
    /\ computed = None
    /\ methods = None
    /\ mounted = None
    /\ files = [p \in {} |-> NoFile]
    /\ out = <<>>

\* an iteration that does not return: lines 14-29 and 33
ScanStep ==
    /\ pc = "scan"
    /\ scan.i < Len(content)
    /\ ~ScanReturns(content, scan)
    /\ scan' = ScanAdvance(content, scan)
    /\ UNCHANGED <<content, kind, start, pc, result, span, driver>>

\* the iteration that returns i: lines 14-31
ScanFound ==
    /\ pc = "scan"
    /\ scan.i < Len(content)
    /\ ScanReturns(content, scan)
    /\ scan' = ScanBody(content, scan)
    /\ result' = scan.i
    /\ pc' = "scanned"
    /\ UNCHANGED <<content, kind, start, span, driver>>

\* the loop condition fails: line 35
ScanExhausted ==
    /\ pc = "scan"
    /\ scan.i >= Len(content)
    /\ result' = -1
    /\ pc' = "scanned"
    /\ UNCHANGED <<content, kind, start, scan, span, driver>>

NextScan == ScanStep \/ ScanFound \/ ScanExhausted

SpecScan == InitScan /\ [][NextScan]_vars

-----------------------------------------------------------------------------
(* A brace-based extractor run step by step on a buffer.                   *)

\* data() { return { count: 0 }; }
Example_data ==
    << "d", "a", "t", "a", "(", ")", " ", "{", " ", "r", "e", "t", "u",
       "r", "n", " ", "{", " ", "c", "o", "u", "n", "t", ":", " ", "0",
       " ", "}", ";", " ", "}" >>

\* methods: { foo() { return 1; } } followed by text with stray closing braces
Example_methods ==
    << "m", "e", "t", "h", "o", "d", "s", ":", " ", "{", " ", "f", "o",
       "o", "(", ")", " ", "{", " ", "r", "e", "t", "u", "r", "n", " ",
       "1", ";", " ", "}", " ", "}", " ", "}", " ", "}" >>

\* mounted() {"\\"} and the same buffer with "} appended
Example_mounted ==
    << "m", "o", "u", "n", "t", "e", "d", "(", ")", " ", "{", "\"", BS, BS,
       "\"", "}" >>

Example_mounted_more == Example_mounted \o <<"\"", "}">>

ExtractExamples ==
    {Example_data, Example_methods, Example_mounted, Example_mounted_more}

ExtractAlphabet == {"{", "}", "\"", BS, "a"}

RECURSIVE JoinPieces(_, _)
JoinPieces(pieces, ws) ==
    IF pieces = <<>> THEN <<>>
    ELSE Head(pieces) \o ws \o JoinPieces(Tail(pieces), ws)

\* the pieces of a pattern before its final opening brace, ws in every gap
AnchorHead(pattern, ws) == JoinPieces(SubSeq(pattern, 1, Len(pattern) - 1), ws)

\* the anchor of kind k up to its opening brace, then a tail that may or may
\* not begin with the opening brace
ExtractInput(k, buffer) ==
    \E n \in 0..MaxTail : \E tail \in [1..n -> ExtractAlphabet] :
        \E ws \in {<<>>, <<" ">>} :
            buffer = AnchorHead(PatternOf(k), ws) \o tail

TemplateAlphabet == {BT, BS, "'", "$", ","}

\* template: \`a\`b\'c\$d`, with an escaped backtick, quote and dollar sign
Example_template ==
    << "t", "e", "m", "p", "l", "a", "t", "e", ":", " ", BS, BT, "a", BS,
       BT, "b", BS, "'", "c", BS, "$", "d", BT, "," >>


RECURSIVE Pad(_)
Pad(n) == IF n <= 0 THEN <<>> ELSE <<"a">> \o Pad(n - 1)

\* the template anchor, then a head, a run of ordinary characters that puts
\* what follows at the edge of the lookahead window, and a tail; or the
\* anchor with white space in it or without its backslash and backtick
TemplateInput(buffer) ==
    \/ \E k \in 0..MaxTplHead : \E head \in [1..k -> TemplateAlphabet] :
          \E n \in {0, LookaheadEnd - 2, LookaheadEnd - 1} :
              \E tail \in {<<>>, <<",">>, <<"}">>} :
                  buffer = <<"t", "e", "m", "p", "l", "a", "t", "e", ":", BS, BT>>
                               \o head \o Pad(n) \o tail
    \/ \E k \in 0..3 : \E head \in [1..k -> TemplateAlphabet] :
          \E ws \in {<<>>, <<"\n">>} :
              buffer = <<"t", "e", "m", "p", "l", "a", "t", "e", ":">> \o ws \o head
    \/ buffer = Example_template

InitExtract ==
    /\ kind \in BracedKinds \cup {"template"}
    /\ IF kind = "template"
       THEN TemplateInput(content)
       ELSE ExtractInput(kind, content) \/ content \in ExtractExamples
    /\ start = 0
    /\ scan = ScanInit(0)
    /\ pc = "locate"
    /\ result = -1
    /\ span = None
    /\ template = None
    /\ data = None
    /\ computed = None
    /\ methods = None
    /\ mounted = None
    /\ files = [p \in {} |-> NoFile]
    /\ out = <<>>

\* lines 66-71, 80-84, 93-98: the anchor is found, start is its opening brace
\* and find_matching_brace is entered (lines 8-11)
LocateFound ==
    /\ pc = "locate"
    /\ kind \in BracedKinds
    /\ re_search(PatternOf(kind), content).found
    /\ start' = re_search(PatternOf(kind), content).end - 1
    /\ scan' = ScanInit(start')
    /\ pc' = "scan"
    /\ UNCHANGED <<content, kind, result, span, driver>>

\* lines 68-69, 81-82, 95-96: no match, the extractor returns None
LocateAbsent ==
    /\ pc = "locate"
    /\ ~re_search(PatternOf(kind), content).found
    /\ span' = None
    /\ pc' = "done"
    /\ UNCHANGED <<content, kind, start, scan, result, driver>>

\* lines 72-76, 85-89, 99-103: the scanner has returned into end
ExtractReturn ==
    /\ pc = "scanned"
    /\ span' = SpanBetween(content, start, result)
    /\ pc' = "done"
    /\ UNCHANGED <<content, kind, start, scan, result, driver>>

\* lines 40-47: the template anchor is found, start is the index after it
TplLocateFound ==
    /\ pc = "locate"
    /\ kind = "template"
    /\ re_search(TemplatePattern, content).found
    /\ start' = re_search(TemplatePattern, content).end
    /\ scan' = [i |-> start', depth |-> 0]
    /\ pc' = "tpl"
    /\ UNCHANGED <<content, kind, result, span, driver>>

\* lines 49-51: an escaped backtick is skipped
TplSkipEscaped ==
    /\ pc = "tpl"
    /\ scan.i < Len(content)
    /\ AtEscapedBacktick(content, scan.i)
    /\ scan' = [scan EXCEPT !.i = scan.i + 2]
    /\ UNCHANGED <<content, kind, start, pc, result, span, driver>>

\* lines 52-59: the closing backtick is accepted and the template returned
TplAccept ==
    /\ pc = "tpl"
    /\ scan.i < Len(content)
    /\ ~AtEscapedBacktick(content, scan.i)
    /\ ClosesTemplate(content, scan.i)
    /\ result' = scan.i
    /\ span' = Some(Unescape(Slice(content, start, scan.i)))
    /\ pc' = "done"
    /\ UNCHANGED <<content, kind, start, scan, driver>>

\* lines 52-55 and 60: any other character is content
TplAdvance ==
    /\ pc = "tpl"
    /\ scan.i < Len(content)
    /\ ~AtEscapedBacktick(content, scan.i)
    /\ ~ClosesTemplate(content, scan.i)
    /\ scan' = [scan EXCEPT !.i = scan.i + 1]
    /\ UNCHANGED <<content, kind, start, pc, result, span, driver>>

\* line 62: the buffer ends without a closing backtick
TplExhausted ==
    /\ pc = "tpl"
    /\ scan.i >= Len(content)
    /\ span' = None
    /\ pc' = "done"
    /\ UNCHANGED <<content, kind, start, scan, result, driver>>

NextExtract ==
    \/ LocateFound
    \/ LocateAbsent
    \/ ScanStep
    \/ ScanFound
    \/ ScanExhausted
    \/ ExtractReturn
    \/ TplLocateFound
    \/ TplSkipEscaped
    \/ TplAccept
    \/ TplAdvance
    \/ TplExhausted

SpecExtract == InitExtract /\ [][NextExtract]_vars

-----------------------------------------------------------------------------
(* The driver: lines 105-142.                                              *)

Sections == {"template", "data", "computed", "methods", "mounted"}

\* lines 118, 123, 128, 133, 138
PathOf(section) ==
    CASE section = "template" -> "frontend/vue-template.html"
      [] section = "data" -> "frontend/vue-data.js"
      [] section = "computed" -> "frontend/vue-computed.js"
      [] section = "methods" -> "frontend/vue-methods.js"
      [] section = "mounted" -> "frontend/vue-mounted.js"

Paths == {PathOf(section) : section \in Sections}

IsLineBreak(c) == c \in {"\n", "\r", "\f"}

\* len(text.splitlines()): a line ends at a line break (\r\n is one break) or
\* at the end of the text
RECURSIVE LineCount(_)
LineCount(text) ==
    IF text = <<>> THEN 0
    ELSE IF IsLineBreak(text[1])
         THEN IF Len(text) >= 2 /\ text[1] = "\r" /\ text[2] = "\n"
              THEN 1 + LineCount(SubSeq(text, 3, Len(text)))
              ELSE 1 + LineCount(SubSeq(text, 2, Len(text)))
         ELSE IF \E k \in 1..Len(text) : IsLineBreak(text[k])
              THEN LineCount(Tail(text))
              ELSE 1

\* as Truthy, but only None is skipped (if x is not None)
Truthy_NotNone(value) == value.present

\* lines 117, 122, 127, 132, 137: None and the empty string are both skipped
Truthy(value) == value.present /\ value.val # <<>>

Confirmation(section, value) ==
    [line |-> "Extracted", section |-> section, lines |-> LineCount(value.val)]

DoneLine == [line |-> "Done! Ready to assemble Vue component."]

\* the variants of each section a buffer is put together from: absent, with a
\* body, with an empty body, and opened but never closed
TemplateTexts ==
    { << >>,
      << "t", "e", "m", "p", "l", "a", "t", "e", ":", " ", BS, BT, "a", "\n", BT,
   "," >>,
      << "t", "e", "m", "p", "l", "a", "t", "e", ":", BS, BT, BT, "," >>,
      << "t", "e", "m", "p", "l", "a", "t", "e", ":", BS, BT, "a" >> }

DataTexts ==
    { << >>,
      << "d", "a", "t", "a", "(", ")", " ", "{", " ", "r", "e", "t", "u", "r",
   "n", " ", "{", "a", "\n", "}", " ", "}" >>,
      << "d", "a", "t", "a", "(", ")", "{", "r", "e", "t", "u", "r", "n", "{",
   "}", "}" >>,
      << "d", "a", "t", "a", "(", ")", "{", "r", "e", "t", "u", "r", "n", "{" >> }

ComputedTexts ==
    { << >>,
      << "c", "o", "m", "p", "u", "t", "e", "d", ":", "{", "a", "}" >>,
      << "c", "o", "m", "p", "u", "t", "e", "d", ":", " ", "{", "}" >>,
      << "c", "o", "m", "p", "u", "t", "e", "d", ":", "{" >> }

MethodsTexts ==
    { << >>,
      << "m", "e", "t", "h", "o", "d", "s", ":", " ", "{", "a", "\n", "\n", "}" >>,
      << "m", "e", "t", "h", "o", "d", "s", ":", "{", "}" >>,
      << "m", "e", "t", "h", "o", "d", "s", ":", "{" >> }

MountedTexts ==
    { << >>,
      << "m", "o", "u", "n", "t", "e", "d", "(", ")", " ", "{", "a", "}" >>,
      << "m", "o", "u", "n", "t", "e", "d", "(", ")", "{", "}" >>,
      << "m", "o", "u", "n", "t", "e", "d", "(", ")", "{" >> }

\* lines 106-107: the input file has been read
Init ==
    /\ content \in { t \o d \o c \o m \o h :
                        t \in TemplateTexts, d \in DataTexts, c \in ComputedTexts,
                        m \in MethodsTexts, h \in MountedTexts }
    /\ kind = "driver"
    /\ start = 0
    /\ scan = ScanInit(0)
    /\ result = -1
    /\ span = None
    /\ pc = "extract_template"
    /\ template = None
    /\ data = None
    /\ computed = None
    /\ methods = None
    /\ mounted = None
    /\ files = [p \in Paths |-> NoFile]
    /\ out = <<>>

fixed == <<content, kind, start, scan, result, span>>

\* line 110
ExtractTemplate ==
    /\ pc = "extract_template"
    /\ template' = extract_template(content)
    /\ pc' = "extract_data"
    /\ UNCHANGED <<fixed, data, computed, methods, mounted, files, out>>

\* line 111
ExtractData ==
    /\ pc = "extract_data"
    /\ data' = extract_data(content)
    /\ pc' = "extract_computed"
    /\ UNCHANGED <<fixed, template, computed, methods, mounted, files, out>>

\* line 112
ExtractComputed ==
    /\ pc = "extract_computed"
    /\ computed' = extract_section(content, Name_computed)
    /\ pc' = "extract_methods"
    /\ UNCHANGED <<fixed, template, data, methods, mounted, files, out>>

\* line 113
ExtractMethods ==
    /\ pc = "extract_methods"
    /\ methods' = extract_section(content, Name_methods)
    /\ pc' = "extract_mounted"
    /\ UNCHANGED <<fixed, template, data, computed, mounted, files, out>>

\* line 114
ExtractMounted ==
    /\ pc = "extract_mounted"
    /\ mounted' = extract_lifecycle(content, Name_mounted)
    /\ pc' = "save_template"
    /\ UNCHANGED <<fixed, template, data, computed, methods, files, out>>

\* one if-block of lines 117-140: the file is written and the confirmation
\* printed when the value is truthy, and nothing happens otherwise
Save(section, value, next) ==
    /\ pc = "save_" \o section
    /\ IF Truthy(value)
       THEN /\ files' = [files EXCEPT ![PathOf(section)] =
                                      [written |-> TRUE, text |-> value.val]]
            /\ out' = Append(out, Confirmation(section, value))
       ELSE UNCHANGED <<files, out>>
    /\ pc' = next
    /\ UNCHANGED <<fixed, template, data, computed, methods, mounted>>

\* lines 117-120
SaveTemplate == Save("template", template, "save_data")

\* lines 122-125
SaveData == Save("data", data, "save_computed")

\* lines 127-130
SaveComputed == Save("computed", computed, "save_methods")

\* lines 132-135
SaveMethods == Save("methods", methods, "save_mounted")

\* lines 137-140
SaveMounted == Save("mounted", mounted, "print_done")

\* line 142
PrintDone ==
    /\ pc = "print_done"
    /\ out' = Append(out, DoneLine)
    /\ pc' = "end"
    /\ UNCHANGED <<fixed, template, data, computed, methods, mounted, files>>

Next ==
    \/ ExtractTemplate
    \/ ExtractData
    \/ ExtractComputed
    \/ ExtractMethods
    \/ ExtractMounted
    \/ SaveTemplate
    \/ SaveData
    \/ SaveComputed
    \/ SaveMethods
    \/ SaveMounted
    \/ PrintDone

Spec == Init /\ [][Next]_vars

-----------------------------------------------------------------------------
(* What the text itself says about quotes and braces, independently of the *)
(* scanner: a character is escaped when an odd number of backslashes       *)
(* stands immediately before it.                                           *)

RECURSIVE BackslashRun(_, _)
BackslashRun(text, k) ==
    IF k = 0 \/ At(text, k - 1) # BS THEN 0 ELSE 1 + BackslashRun(text, k - 1)

Escaped(text, k) == BackslashRun(text, k) % 2 = 1

\* the quote character open after reading text[s..k], NoChar when outside a string
RECURSIVE LitAfter(_, _, _)
LitAfter(text, s, k) ==
    IF k < s THEN NoChar
    ELSE LET before == LitAfter(text, s, k - 1)
             c == At(text, k)
         IN  IF IsQuoteChar(c) /\ ~Escaped(text, k)
             THEN IF before = NoChar THEN c
                  ELSE IF before = c THEN NoChar ELSE before
             ELSE before

\* the brace depth after reading text[s..k], braces inside string literals not counted
RECURSIVE LitDepthAfter(_, _, _)
LitDepthAfter(text, s, k) ==
    IF k < s THEN 0
    ELSE LET d == LitDepthAfter(text, s, k - 1)
             c == At(text, k)
         IN  IF LitAfter(text, s, k) # NoChar THEN d
             ELSE IF c = "{" THEN d + 1
             ELSE IF c = "}" THEN d - 1
             ELSE d

\* the indices at which the depth counted from s is back at zero on a closing brace
LitCloses(text, s) ==
    { j \in s..(Len(text) - 1) :
         /\ At(text, j) = "}"
         /\ LitAfter(text, s, j) = NoChar
         /\ LitDepthAfter(text, s, j) = 0 }

MinOf(S) == CHOOSE x \in S : \A y \in S : x <= y

\* s holds the opening brace of a region that closes, with backslashes only
\* inside its string literals
WellFormedAt(text, s) ==
    /\ s < Len(text)
    /\ At(text, s) = "{"
    /\ LitCloses(text, s) # {}
    /\ \A k \in s..MinOf(LitCloses(text, s)) :
           At(text, k) = BS => LitAfter(text, s, k) # NoChar

-----------------------------------------------------------------------------
(* Properties of the scanner.                                              *)

\* C1: from the opening brace of a well-formed region find_matching_brace
\* returns the first index at which the depth, counted over the braces outside
\* string literals, is back at zero.
C1_ReturnsMatchingBrace ==
    (pc = "scanned" /\ WellFormedAt(content, start))
        => result = MinOf(LitCloses(content, start))

\* the scanner is about to read a character
Reading == pc = "scan" /\ scan.i < Len(content)

C2_Step ==
    (Reading /\ At(content, scan.i) \in {"{", "}"} /\ scan.in_string)
        => (scan'.depth = scan.depth /\ pc' = "scan" /\ result' = result)

C2_Example ==
    (pc = "scanned" /\ content = <<"{", "\"", "a", "}", "b", "\"", "}">>) => result = 6

\* C2: a brace read while the scanner is inside a string literal leaves the
\* depth unchanged and is not returned; scanning {"a}b"} from index 0 returns
\* the index of the final brace.
C2_BracesInStringsInert == [][C2_Step]_vars /\ []C2_Example

C2_Witness ==
    /\ pc = "scanned"
    /\ content = <<"{", "\"", "a", "}", "b", "\"", "}">>
    /\ result = 6

C3_Step ==
    Reading =>
        LET c == At(content, scan.i)
            toggled == scan'.in_string # scan.in_string
            live == /\ IsQuoteChar(c)
                    /\ ~Escaped(content, scan.i)
                    /\ (scan.in_string => c = scan.string_char)
        IN  toggled <=> live

\* C3: a quote character toggles the quote state exactly when it is not
\* escaped: an escaped quote never closes the string, and every quote that is
\* not escaped opens a string or closes the string its own character opened.
C3_QuoteTogglesIffUnescaped == [][C3_Step]_vars

C10_Step ==
    Reading =>
        LET c == At(content, scan.i)
        IN  /\ (~scan.in_string /\ scan'.in_string)
               => (IsQuoteChar(c) /\ scan'.string_char = c)
            /\ (scan.in_string /\ ~scan'.in_string)
               => (c = scan.string_char /\ ~Escaped(content, scan.i)
                   /\ scan'.string_char = NoChar)
            /\ (scan.in_string /\ scan'.in_string)
               => scan'.string_char = scan.string_char
            /\ (scan.in_string /\ IsQuoteChar(c) /\ c # scan.string_char)
               => (scan'.in_string /\ scan'.string_char = scan.string_char)

C10_OneActive ==
    /\ scan.in_string <=> scan.string_char # NoChar
    /\ scan.string_char \in {"\"", "'", BT, NoChar}

\* C10: at most one quote character is active: the in-string flag is set
\* exactly when an opening quote is recorded, only an unescaped occurrence of
\* the recorded character clears it, and a different quote character met
\* inside a string neither closes the string nor opens a nested one.
C10_SingleActiveQuote == []C10_OneActive /\ [][C10_Step]_vars

\* a different quote character has been read inside a string that is still open
C10_Witness ==
    /\ pc = "scan"
    /\ scan.i >= start + 3
    /\ scan.in_string
    /\ scan.string_char = "\""
    /\ At(content, scan.i - 1) = "'"
    /\ At(content, scan.i - 2) # BS

-----------------------------------------------------------------------------
(* Properties of the extractors.                                           *)

Located == re_search(PatternOf(kind), content).found

\* the opening brace that ends the anchor match
OpenBrace == re_search(PatternOf(kind), content).end - 1

\* C4: when the opening brace of the section has a matching closing brace in
\* the buffer, the extracted span is the text between the two, whatever
\* follows the matching brace.
C4_EndsAtMatchingBrace ==
    (pc = "done" /\ kind \in BracedKinds /\ Located
       /\ WellFormedAt(content, OpenBrace))
        => span = Some(Slice(content, OpenBrace + 1,
                             MinOf(LitCloses(content, OpenBrace))))

C5_Example ==
    (pc = "done" /\ kind = "data" /\ content = Example_data)
        => span = Some(<<" ", "c", "o", "u", "n", "t", ":", " ", "0", " ">>)

\* C5: a brace-based extractor that succeeds returns exactly the characters
\* strictly between the opening brace that ends the anchor match and the
\* index the scanner returned; for data() { return { count: 0 }; } that is
\* count: 0 with its surrounding spaces.
C5_ExactSpan ==
    /\ (pc = "done" /\ kind \in BracedKinds /\ span.present)
          => /\ start = OpenBrace
             /\ At(content, start) = "{"
             /\ Len(span.val) = result - start - 1
             /\ \A k \in 1..Len(span.val) : span.val[k] = At(content, start + k)
    /\ C5_Example

C5_Witness ==
    /\ pc = "done"
    /\ kind = "data"
    /\ content = Example_data
    /\ span.present
    /\ Len(span.val) = 10

\* the escapes undone in one pass over the raw text
RECURSIVE Unescaped(_)
Unescaped(raw) ==
    IF raw = <<>> THEN <<>>
    ELSE IF Len(raw) >= 2 /\ raw[1] = BS /\ raw[2] \in {BT, "'", "$"}
         THEN <<raw[2]>> \o Unescaped(SubSeq(raw, 3, Len(raw)))
         ELSE <<raw[1]>> \o Unescaped(SubSeq(raw, 2, Len(raw)))

\* C6: a template that is found is the raw text between the backtick of the
\* anchor and the accepted closing backtick with every backslash-backtick,
\* backslash-quote and backslash-dollar pair replaced by its second character
\* and nothing else changed.
C6_TemplateUnescaped ==
    (pc = "done" /\ kind = "template" /\ span.present)
        => /\ At(content, start - 1) = BT
           /\ At(content, result) = BT
           /\ span.val = Unescaped(Slice(content, start, result))

C6_Witness ==
    /\ pc = "done"
    /\ content = Example_template
    /\ span = Some(<<"a", BT, "b", "'", "c", "$", "d">>)

\* the number of characters looked at after a candidate backtick
Window == 9

\* the backticks that are not preceded by a backslash and have a comma or a
\* closing brace among the Window characters after them
Closers(text, s) ==
    { k \in s..(Len(text) - 1) :
         /\ At(text, k) = BT
         /\ At(text, k - 1) # BS
         /\ \E m \in (k + 1)..(k + Window) :
                m < Len(text) /\ At(text, m) \in {",", "}"} }

\* C9: the template ends at the first backtick after the anchor that is not
\* preceded by a backslash and has a comma or closing brace in the window of
\* 9 characters after it; without such a backtick the result is absent.
C9_FirstQualifyingBacktick ==
    (pc = "done" /\ kind = "template" /\ Located)
        => IF Closers(content, start) = {}
           THEN span = None
           ELSE span.present /\ result = MinOf(Closers(content, start))

\* accepted after an escaped backtick and an unescaped one that failed the lookahead
C9_Witness ==
    /\ pc = "done"
    /\ kind = "template"
    /\ span.present
    /\ \E k \in start..(result - 1) : At(content, k) = BT /\ At(content, k - 1) # BS
    /\ \E k \in start..(result - 1) : At(content, k) = BT /\ At(content, k - 1) = BS

\* C8: the scanner and the extractors always finish: the scanner returns -1
\* exactly when the buffer ends first, and an extractor returns None or the
\* full span between a located opening delimiter and the closing delimiter
\* that was found, never a span cut off at the end of the buffer.
C8_AbsentOrFullSpan ==
    /\ pc \in {"locate", "scan", "scanned", "tpl", "done"}
    /\ start <= scan.i /\ scan.i <= Len(content)
    /\ pc = "scanned" =>
          /\ result = -1 <=> scan.i >= Len(content)
          /\ result # -1 =>
                (start < result /\ result < Len(content) /\ At(content, result) = "}")
    /\ (pc = "done" /\ ~Located) => span = None
    /\ (pc = "done" /\ kind \in BracedKinds /\ result = -1) => span = None
    /\ (pc = "done" /\ kind \in BracedKinds /\ span.present) =>
          /\ At(content, start) = "{"
          /\ start < result /\ result < Len(content)
          /\ At(content, result) = "}"
          /\ span.val = Slice(content, start + 1, result)
    /\ (pc = "done" /\ kind = "template" /\ Located /\ result = -1) => span = None
    /\ (pc = "done" /\ kind = "template" /\ span.present) =>
          /\ At(content, start - 1) = BT
          /\ start <= result /\ result < Len(content)
          /\ At(content, result) = BT
          /\ Len(span.val) <= result - start

\* the buffer ended inside an opened region and the extractor returned None
C8_Witness ==
    /\ pc = "done"
    /\ kind \in BracedKinds
    /\ Located
    /\ result = -1
    /\ scan.depth > 0
    /\ span = None

-----------------------------------------------------------------------------
(* Properties of the driver.                                               *)

ValueOf(section) ==
    CASE section = "template" -> template
      [] section = "data" -> data
      [] section = "computed" -> computed
      [] section = "methods" -> methods
      [] section = "mounted" -> mounted

ConfirmationsFor(section) ==
    {k \in 1..Len(out) : out[k] # DoneLine /\ out[k].section = section}

\* C7: at the end of the run each section has its file and exactly one
\* confirmation line if and only if its extractor returned a non-empty result;
\* a section whose anchor occurs nowhere is absent, has no file and no
\* confirmation, and the completion message is the last line printed.
C7_FilesIffNonEmpty ==
    pc = "end" =>
        /\ \A section \in Sections :
              LET value == ValueOf(section)
                  nonempty == value # None /\ value.val # <<>>
              IN  /\ files[PathOf(section)].written <=> nonempty
                  /\ nonempty => files[PathOf(section)].text = value.val
                  /\ Cardinality(ConfirmationsFor(section)) = IF nonempty THEN 1 ELSE 0
                  /\ ~re_search(PatternOf(section), content).found
                        => (value = None /\ ~files[PathOf(section)].written)
        /\ out # <<>>
        /\ out[Len(out)] = DoneLine
        /\ \A k \in 1..(Len(out) - 1) : out[k] # DoneLine

\* a run with an absent section, an empty one and a written one
C7_Witness ==
    /\ pc = "end"
    /\ ~re_search(TemplatePattern, content).found
    /\ data = Some(<<>>)
    /\ ~files[PathOf("data")].written
    /\ files[PathOf("methods")].written
    /\ Len(out) >= 2

====
